---- MODULE Spec2Model ----
(***************************************************************************)
(* Model of the scanning engine of info-leak-crawler:                      *)
(*   scrapers/privacy_scanner.py  PrivacyScanner (scan, _fetch_with_retry, *)
(*                                _deduplicate_results, _analyze_snippet,  *)
(*                                _generate_summary)                       *)
(*   scrapers/data_extractor.py   DataExtractor (_find_matches,            *)
(*                                _calculate_privacy_score, _assess_risk)  *)
(*   scrapers/utils.py            Utils (generate_search_queries,          *)
(*                                clean_url, get_domain)                   *)
(*   scrapers/search_engines.py   SearchEngineAggregator (search_all,      *)
(*                                _search_engine), the paging search of    *)
(*                                GoogleScraper, BingScraper, BaiduScraper *)
(*   scrapers/base.py             BaseScraper (__aenter__, __aexit__,      *)
(*                                fetch)                                   *)
(*   scrapers/config.py           Config                                   *)
(*                                                                         *)
(* Encodings.                                                              *)
(*  - A URL is the record urlparse() splits it into.                       *)
(*  - A page text / a snippet is described by what the matcher's tests     *)
(*    find in it (which identity values occur, exactly or by parts).       *)
(*  - A confidence c is kept as the integer c * ConfScale; every           *)
(*    confidence of the model is k/2, 0.7, 0.8, 0.9 or 1.0, for which the   *)
(*    integer arithmetic below gives the value Python's float arithmetic   *)
(*    gives after int().                                                   *)
(*  - A search query f'"{a}" "{b}"' is the tuple <<a, b>> of its quoted    *)
(*    terms; the cache key f"{query}:{','.join(engines)}" is the sequence  *)
(*    of its pieces: the query, ":", and the ids separated by ",".         *)
(***************************************************************************)
EXTENDS Integers, Sequences, FiniteSets, TLC

VARIABLES
    bound_names,      \* names bound in privacy_scanner's module namespace besides its imports
    result_budget,    \* candidates the providers have to return, in total, in one scan
    results_cache,    \* PrivacyScanner.results_cache
    pc,               \* position of the running coroutine
    user_info,        \* scan(): user_info
    options,          \* scan(): options
    queries,          \* scan(): queries
    qi,               \* scan(): index of the query of the search loops (1-based)
    all_results,      \* scan(): all_results
    unique_results,   \* scan(): unique_results
    ci,               \* scan(): index in unique_results[:max_detailed] (1-based)
    detailed_results, \* scan(): detailed_results
    attempt,          \* _fetch_with_retry(): attempt
    max_retries,      \* _fetch_with_retry(): max_retries
    fetch_log,        \* history of the current _fetch_with_retry call: attempts and sleeps
    fetch_ret,        \* value returned by the last finished _fetch_with_retry call
    fetch_path,       \* the return statement that call left through
    analysis,         \* history of the scan: per processed candidate, fetch outcome and analyser
    net_activity,     \* history of the scan: a provider search or a page request was made
    matcher_args,     \* arguments of the last matcher call
    extracted,        \* value returned by the last matcher call
    report,           \* value returned by the last finished scan
    raised,           \* exception the last scan raised to its caller
    scan_count,       \* history of the instance: scan() calls made on it
    search_calls,     \* history of the instance: search_all calls of scan, per (query, engines),
                      \* with the pages_per_engine and the return of the latest
    agg_call,         \* a search_all call made on its own: arguments, tasks, return
    match_runs,       \* values returned by repeated runs of the full matcher on one input
    scans,            \* scan() calls running concurrently on the instance: the locals of each
    fetch_call,       \* a BaseScraper.fetch call: retries, history of requests and waits, return
    search_run,       \* a provider's search(query, pages) call: its locals and its history
    provider          \* one provider instance: self.session, the sessions closed so far, and
                      \* the _search_engine calls running on it

vars == <<bound_names, result_budget, results_cache, pc, user_info, options, queries, qi,
          all_results, unique_results, ci, detailed_results, attempt,
          max_retries, fetch_log, fetch_ret, fetch_path, analysis, net_activity,
          matcher_args, extracted, report, raised, scan_count, search_calls,
          agg_call, match_runs, scans, fetch_call, search_run, provider>>

(***************************************************************************)
(* Bounds of the model.                                                    *)
(***************************************************************************)
MaxAllResults == 2      \* candidates the providers return in one scan, in total
MaxLiveResults == 1     \* the same, in the specification with fairness
MaxRetriesBound == 3    \* largest max_retries _fetch_with_retry is called with on its own

(***************************************************************************)
(* Identity profiles.                                                      *)
(***************************************************************************)
NAME == "John Smith"
EMAIL == "john.smith@example.com"
PHONE == "555-123-4567"
ADDRESS == "Springfield, Illinois"

\* name.split()
NameParts == <<"John", "Smith">>
\* re.split(r'[,\s]+', address)
AddressParts == <<"Springfield", "Illinois">>

Range(s) == {s[i] : i \in 1..Len(s)}

Profiles == [name : {"", NAME}, email : {"", EMAIL},
             phone : {"", PHONE}, address : {"", ADDRESS}]

EmptyProfile == [name |-> "", email |-> "", phone |-> "", address |-> ""]

\* info.get(k) is falsy for a missing key and for the empty string
Present(info, k) == info[k] # ""

(***************************************************************************)
(* Utils.generate_search_queries                                           *)
(***************************************************************************)
\* the planner with the last two combinations in the other order
generate_search_queries_PairBeforeEmail(info) ==
    (IF Present(info, "name") THEN << <<info.name>> >> ELSE <<>>)
    \o (IF Present(info, "name") /\ Present(info, "phone")
        THEN << <<info.name, info.phone>> >> ELSE <<>>)
    \o (IF Present(info, "name") /\ Present(info, "email")
        THEN << <<info.name, info.email>> >> ELSE <<>>)
    \o (IF Present(info, "name") /\ Present(info, "address")
        THEN << <<info.name, info.address>> >> ELSE <<>>)
    \o (IF Present(info, "phone") /\ Present(info, "email")
        THEN << <<info.phone, info.email>> >> ELSE <<>>)
    \o (IF Present(info, "email") THEN << <<info.email>> >> ELSE <<>>)

generate_search_queries(info) ==
    (IF Present(info, "name") THEN << <<info.name>> >> ELSE <<>>)
    \o (IF Present(info, "name") /\ Present(info, "phone")
        THEN << <<info.name, info.phone>> >> ELSE <<>>)
    \o (IF Present(info, "name") /\ Present(info, "email")
        THEN << <<info.name, info.email>> >> ELSE <<>>)
    \o (IF Present(info, "name") /\ Present(info, "address")
        THEN << <<info.name, info.address>> >> ELSE <<>>)
    \o (IF Present(info, "email") THEN << <<info.email>> >> ELSE <<>>)
    \o (IF Present(info, "phone") /\ Present(info, "email")
        THEN << <<info.phone, info.email>> >> ELSE <<>>)

(***************************************************************************)
(* URLs: Utils.clean_url, Utils.get_domain                                 *)
(***************************************************************************)
Url(netloc, path, query) ==
    [scheme |-> "https", netloc |-> netloc, path |-> path, query |-> query]

EmptyUrl == [scheme |-> "", netloc |-> "", path |-> "", query |-> ""]

\* clean_url with the query string kept
clean_url_KeepsQuery(url) ==
    IF url = EmptyUrl THEN <<>> ELSE <<url.scheme, url.netloc, url.path, url.query>>

\* f"{parsed.scheme}://{parsed.netloc}{parsed.path}", "" for the empty URL
clean_url(url) ==
    IF url = EmptyUrl THEN <<>>
    ELSE <<url.scheme, url.netloc, url.path>>

get_domain(url) == url.netloc

\* the tokens of the two lists of _calculate_privacy_score that occur in a host name
TokensIn(netloc) ==
    CASE netloc = "example.com" -> {}
      [] netloc = "www.facebook.com" -> {"facebook"}
      [] netloc = "pastebin.com" -> {"pastebin"}
      [] netloc = "facebook.github.io" -> {"facebook", "github"}
      [] OTHER -> {}

Netlocs == {"example.com", "www.facebook.com", "pastebin.com", "facebook.github.io"}

(***************************************************************************)
(* Page texts, as the tests of DataExtractor._find_matches see them.       *)
(***************************************************************************)
\* exact: the whole value occurs; parts: the parts (of length > 2) that occur
Occurrences(parts) ==
    {[exact |-> TRUE, parts |-> Range(parts)]}
    \cup {[exact |-> FALSE, parts |-> ps] : ps \in SUBSET Range(parts)}

Pages == [nonempty : {TRUE}, name : Occurrences(NameParts), email : {"none", "partial", "exact"},
          phone : {"none", "partial", "exact"}, address : Occurrences(AddressParts), pii : BOOLEAN]

NoOccurrence == [exact |-> FALSE, parts |-> {}]

\* the empty response body ""
EmptyBody == [nonempty |-> FALSE, name |-> NoOccurrence, email |-> "none",
              phone |-> "none", address |-> NoOccurrence, pii |-> FALSE]

(***************************************************************************)
(* Match records.  matched_info is a function from the matched keys to     *)
(* [conf, match_type]; conf is confidence * ConfScale.                     *)
(***************************************************************************)
ConfScale == 2 * 3 * 5

MatchKeys == {"name", "email", "phone", "address", "additional_pii"}

Match(conf, type) == [conf |-> conf, match_type |-> type]

NoMatches == [k \in {} |-> Match(0, "exact")]

\* the value a matcher call returns, or the exception it raises
Outcome(exc, matched, score, level, based) ==
    [exc |-> exc, matched_info |-> matched, privacy_score |-> score,
     risk_level |-> level, based_on |-> based]

Raises(exc) == Outcome(exc, NoMatches, 0, "low", "none")

Min(a, b) == IF a < b THEN a ELSE b

(***************************************************************************)
(* DataExtractor._find_matches                                             *)
(***************************************************************************)
\* the address branch evaluates found_parts[0] whenever the address has
\* at least 2 parts, also when found_parts is empty
AddressRaises(page, info) ==
    /\ Present(info, "address")
    /\ ~page.address.exact
    /\ Len(AddressParts) >= 2
    /\ page.address.parts = {}

FoundKeys(page, info) ==
    {k \in MatchKeys :
        CASE k = "name" ->
                Present(info, "name") /\ (page.name.exact \/ page.name.parts # {})
          [] k = "email" -> Present(info, "email") /\ page.email # "none"
          [] k = "phone" -> Present(info, "phone") /\ page.phone # "none"
          [] k = "address" ->
                Present(info, "address")
                /\ (page.address.exact \/ Len(AddressParts) >= 2)
          [] k = "additional_pii" -> page.pii}

FoundMatch(page, k) ==
    CASE k = "name" ->
            IF page.name.exact THEN Match(ConfScale, "exact")
            ELSE Match((ConfScale * Cardinality(page.name.parts)) \div Len(NameParts),
                       "partial")
      [] k = "email" ->
            IF page.email = "exact" THEN Match(ConfScale, "exact")
            ELSE Match((ConfScale * 7) \div 10, "partial")
      [] k = "phone" ->
            IF page.phone = "exact" THEN Match(ConfScale, "exact")
            ELSE Match((ConfScale * 8) \div 10, "partial")
      [] k = "address" ->
            IF page.address.exact THEN Match(ConfScale, "exact")
            ELSE Match((ConfScale * Cardinality(page.address.parts)) \div Len(AddressParts),
                       "partial")
      \* a dict of example lists: it has no 'confidence', so the score reads 1.0
      [] k = "additional_pii" -> Match(ConfScale, "pii")

find_matches(page, info) == [k \in FoundKeys(page, info) |-> FoundMatch(page, k)]

(***************************************************************************)
(* DataExtractor._calculate_privacy_score                                  *)
(***************************************************************************)
BaseScore(k) ==
    CASE k = "name" -> 20
      [] k = "email" -> 30
      [] k = "phone" -> 40
      [] k = "address" -> 35
      [] k = "additional_pii" -> 25

SocialTokens == {"facebook", "twitter", "linkedin", "instagram"}
DumpTokens == {"pastebin", "github", "breach"}

\* the test of the dump tokens made first
Multiplier10_DumpFirst(url) ==
    IF TokensIn(get_domain(url)) \cap DumpTokens # {} THEN 15
    ELSE IF TokensIn(get_domain(url)) \cap SocialTokens # {} THEN 12
    ELSE 10

\* the multiplier, times 10
Multiplier10(url) ==
    IF TokensIn(get_domain(url)) \cap SocialTokens # {} THEN 12
    ELSE IF TokensIn(get_domain(url)) \cap DumpTokens # {} THEN 15
    ELSE 10

RECURSIVE SumScores(_, _)
SumScores(matches, keys) ==
    IF keys = {} THEN 0
    ELSE LET k == CHOOSE x \in keys : TRUE
         IN  BaseScore(k) * matches[k].conf + SumScores(matches, keys \ {k})

\* a score that averages the weighted confidences instead of adding them
WeightedScore_Mean(matches, url) ==
    IF DOMAIN matches = {} THEN 0
    ELSE (SumScores(matches, DOMAIN matches) * Multiplier10(url))
             \div Cardinality(DOMAIN matches)

\* score, times ConfScale * 10
WeightedScore(matches, url) ==
    SumScores(matches, DOMAIN matches) * Multiplier10(url)

\* the score without its cap
calculate_privacy_score_NoCap(matches, url) ==
    WeightedScore(matches, url) \div (ConfScale * 10)

calculate_privacy_score(matches, url) ==
    Min(100, WeightedScore(matches, url) \div (ConfScale * 10))

(***************************************************************************)
(* DataExtractor._assess_risk                                              *)
(***************************************************************************)
assess_risk(matches) ==
    LET matched_types == Cardinality(DOMAIN matches \ {"additional_pii"})
    IN  IF matched_types >= 3 THEN "high"
        ELSE IF matched_types >= 2 THEN "medium"
        ELSE IF "email" \in DOMAIN matches \/ "phone" \in DOMAIN matches THEN "medium"
        ELSE "low"

(***************************************************************************)
(* DataExtractor.extract_personal_info                                     *)
(***************************************************************************)
extract_personal_info(url, page, info) ==
    IF AddressRaises(page, info) THEN Raises("IndexError")
    ELSE LET matches == find_matches(page, info)
         IN  Outcome("none", matches, calculate_privacy_score(matches, url),
                     assess_risk(matches), "none")

(***************************************************************************)
(* PrivacyScanner._analyze_snippet                                         *)
(* A candidate's snippet_has is the set of attributes whose value the      *)
(* snippet tests find in title + snippet.                                  *)
(***************************************************************************)
SnippetKeys(result, info) ==
    {k \in {"name", "email", "phone"} : Present(info, k) /\ k \in result.snippet_has}

SnippetConf(k) ==
    CASE k = "name" -> (ConfScale * 8) \div 10
      [] k = "email" -> (ConfScale * 9) \div 10
      [] k = "phone" -> (ConfScale * 9) \div 10

SnippetPoints(k) ==
    CASE k = "name" -> 15
      [] k = "email" -> 25
      [] k = "phone" -> 30

RECURSIVE SumPoints(_)
SumPoints(keys) ==
    IF keys = {} THEN 0
    ELSE LET k == CHOOSE x \in keys : TRUE
         IN  SnippetPoints(k) + SumPoints(keys \ {k})

SnippetRisk(score) ==
    IF score < 20 THEN "low" ELSE IF score < 40 THEN "medium" ELSE "high"

\* names: the names bound in the module; the phone branch calls re.sub
analyze_snippet(result, info, names) ==
    IF Present(info, "phone") /\ "re" \notin names THEN Raises("NameError")
    ELSE LET keys == SnippetKeys(result, info)
             privacy_score == SumPoints(keys)
         IN  Outcome("none", [k \in keys |-> Match(SnippetConf(k), "snippet")],
                     Min(privacy_score, 70), SnippetRisk(privacy_score),
                     "snippet_analysis")

(***************************************************************************)
(* Candidate results, as the providers' parse_results build them.          *)
(***************************************************************************)
Candidate(url, source, has) == [url |-> url, source |-> source, snippet_has |-> has]

GoogleHit == Candidate(Url("example.com", "/profile", ""), "google", {"name"})
BingHit == Candidate(Url("example.com", "/profile", "ref=1"), "bing", {})
BingPaste == Candidate(Url("pastebin.com", "/dump", ""), "bing", {"name", "email", "phone"})
GithubHit == Candidate(Url("facebook.github.io", "/jsmith", ""), "github", {"email"})

\* the lists one provider search can return; the empty list is also what
\* _search_engine returns for a provider that failed
SeqsOver(S) ==
    {<<>>} \cup {<<a>> : a \in S} \cup {p \in S \X S : p[1] # p[2]}

ProviderOutputs(engine) ==
    CASE engine = "google" -> SeqsOver({GoogleHit})
      [] engine = "bing" -> SeqsOver({BingHit, BingPaste})
      [] engine = "github" -> SeqsOver({GithubHit})
      [] OTHER -> {<<>>}

\* SearchEngineAggregator.engines, SocialMediaAggregator.platforms
RegisteredEngines == {"google", "bing", "baidu", "duckduckgo"}
RegisteredPlatforms == {"github", "linkedin"}

(***************************************************************************)
(* PrivacyScanner._deduplicate_results (and the same loop of search_all)   *)
(***************************************************************************)
RECURSIVE DedupFrom(_, _, _)
DedupFrom(results, i, seen_urls) ==
    IF i > Len(results) THEN <<>>
    ELSE LET url == clean_url(results[i].url)
         IN  IF url # <<>> /\ url \notin seen_urls
             THEN <<results[i]>> \o DedupFrom(results, i + 1, seen_urls \cup {url})
             ELSE DedupFrom(results, i + 1, seen_urls)

deduplicate_results(results) == DedupFrom(results, 1, {})

(***************************************************************************)
(* SearchEngineAggregator.search_all: out[e] is the list the search of     *)
(* provider e returns.                                                     *)
(***************************************************************************)
RECURSIVE ConcatOutputs(_, _, _, _)
ConcatOutputs(names, i, registered, out) ==
    IF i > Len(names) THEN <<>>
    ELSE (IF names[i] \in registered THEN out[names[i]] ELSE <<>>)
         \o ConcatOutputs(names, i + 1, registered, out)

search_all(engines, out) ==
    deduplicate_results(ConcatOutputs(engines, 1, RegisteredEngines, out))

\* SocialMediaAggregator.search_all: no deduplication
social_search_all(platforms, out) ==
    ConcatOutputs(platforms, 1, RegisteredPlatforms, out)

(***************************************************************************)
(* list.sort(key=..., reverse=True) and sorted(..., reverse=True): the     *)
(* result is in descending order of the keys, and elements of equal key    *)
(* keep their order.                                                       *)
(***************************************************************************)
\* the rank of an unstable sort: equal keys in reverse order
Rank_TiesReversed(keys, idx, i) ==
    Cardinality({j \in idx : keys[j] > keys[i] \/ (keys[j] = keys[i] /\ j > i)}) + 1

\* the place of element i: behind the elements of a larger key and the
\* earlier elements of the same key
Rank(keys, idx, i) ==
    Cardinality({j \in idx : keys[j] > keys[i] \/ (keys[j] = keys[i] /\ j < i)}) + 1

\* the indices idx of keys, in sorted order
SortedIndices(keys, idx) ==
    [p \in 1..Cardinality(idx) |-> CHOOSE i \in idx : Rank(keys, idx, i) = p]

sort_by_privacy_score(s) ==
    LET order == SortedIndices([i \in 1..Len(s) |-> s[i].privacy_score], 1..Len(s))
    IN  [p \in 1..Len(s) |-> s[order[p]]]

(***************************************************************************)
(* PrivacyScanner._generate_summary                                        *)
(***************************************************************************)
\* the results whose risk_level is in levels (lines 236-240)
CountLevel(results, levels) ==
    Cardinality({i \in 1..Len(results) : results[i].risk_level \in levels})

\* the results of the else branch (lines 241-242)
CountOther(results) ==
    Cardinality({i \in 1..Len(results) : results[i].risk_level \notin {"high", "medium"}})

InfoTypes == {"name", "email", "phone", "address"}

\* the matched_info keys of the results
MatchedTypes(results) == UNION {DOMAIN results[i].matched_info : i \in 1..Len(results)}

\* a summary that counts every key of matched_info
exposed_information_EveryKey(results) ==
    [t \in MatchedTypes(results) |->
        Cardinality({i \in 1..Len(results) : t \in DOMAIN results[i].matched_info})]

\* summary['exposed_information']: a defaultdict(int), a key for each
\* counted type (lines 245-247)
exposed_information(results) ==
    [t \in MatchedTypes(results) \ {"additional_pii"} |->
        Cardinality({i \in 1..Len(results) : t \in DOMAIN results[i].matched_info})]

\* summary['exposed_information'].get(t, 0)
GetCount(exposed, t) == IF t \in DOMAIN exposed THEN exposed[t] ELSE 0

\* summary['top_domains']: the domains with their counts, sorted by count
\* (dict order is first-seen order), the first 10
top_domains(results) ==
    LET dom == [i \in 1..Len(results) |-> get_domain(results[i].url)]
        count == [i \in 1..Len(results) |->
                     Cardinality({j \in 1..Len(results) : dom[j] = dom[i]})]
        firsts == {i \in 1..Len(results) :
                     dom[i] # "" /\ \A j \in 1..(i - 1) : dom[j] # dom[i]}
        order == SortedIndices(count, firsts)
    IN  [p \in 1..Min(10, Cardinality(firsts)) |->
            LET i == order[p] IN [domain |-> dom[i], count |-> count[i]]]

overall_risk_level(high, medium) ==
    IF high >= 3 THEN "high"
    ELSE IF high >= 1 \/ medium >= 3 THEN "medium"
    ELSE "low"

recommendations(exposed, overall) ==
    (IF GetCount(exposed, "email") > 2 THEN <<"email">> ELSE <<>>)
    \o (IF GetCount(exposed, "phone") > 0 THEN <<"phone">> ELSE <<>>)
    \o (IF GetCount(exposed, "address") > 0 THEN <<"address">> ELSE <<>>)
    \o (IF overall = "high" THEN <<"high_risk">> ELSE <<>>)

generate_summary(results) ==
    LET high == CountLevel(results, {"high"})
        medium == CountLevel(results, {"medium"})
        exposed == exposed_information(results)
        overall == overall_risk_level(high, medium)
    IN  [total_exposures |-> Len(results),
         high_risk_exposures |-> high,
         medium_risk_exposures |-> medium,
         low_risk_exposures |-> CountOther(results),
         exposed_information |-> exposed,
         top_domains |-> top_domains(results),
         recommendations |-> recommendations(exposed, overall),
         overall_risk_level |-> overall]

(***************************************************************************)
(* Values of the scan.                                                     *)
(***************************************************************************)
DefaultOptions ==
    [search_engines |-> <<"google", "bing">>,
     social_platforms |-> <<"github", "reddit">>,
     pages_per_engine |-> 3,
     max_detailed_results |-> 20]

OptionChoices ==
    {DefaultOptions,
     [DefaultOptions EXCEPT !.social_platforms = <<>>, !.max_detailed_results = 1]}

\* max_retries: int = 2
DefaultMaxRetries == 2

NoReport ==
    [returned |-> FALSE, user_info |-> EmptyProfile, total_results_found |-> 0,
     detailed_results |-> <<>>, summary |-> generate_summary(<<>>), options |-> DefaultOptions]

\* Optional[str]: None, or the text of the response
None == [is_none |-> TRUE, body |-> EmptyBody]
Text(page) == [is_none |-> FALSE, body |-> page]

\* `if html:`
Truthy(html) == ~html.is_none /\ html.body.nonempty

\* {**result, **extracted}
Merged(result, outcome) ==
    [url |-> result.url, source |-> result.source, snippet_has |-> result.snippet_has,
     matched_info |-> outcome.matched_info, privacy_score |-> outcome.privacy_score,
     risk_level |-> outcome.risk_level, based_on |-> outcome.based_on]

\* no truncation
Retained_All(unique, opts) == unique

\* unique_results[:max_detailed], for max_detailed >= 0
Retained(unique, opts) == SubSeq(unique, 1, Min(opts.max_detailed_results, Len(unique)))

EmptyCache == [k \in {} |-> <<>>]

\* ','.join(search_engines)
RECURSIVE JoinComma(_)
JoinComma(names) ==
    IF names = <<>> THEN <<>>
    ELSE IF Len(names) = 1 THEN <<names[1]>>
    ELSE <<names[1], ",">> \o JoinComma(Tail(names))

\* a key made of the query alone
cache_key_QueryOnly(query, opts) == <<query, ":">>

\* f"{query}:{','.join(search_engines)}"
cache_key(query, opts) == <<query, ":">> \o JoinComma(opts.search_engines)

\* no search_all call made yet
NoCalls == [k \in {} |-> [n |-> 0, pages |-> 0, ret |-> <<>>]]

\* one more search_all call for the query and the provider list, and the
\* list it returned
CountCall(calls, query, engines, pages, results) ==
    IF <<query, engines>> \in DOMAIN calls
    THEN [calls EXCEPT ![<<query, engines>>] =
             [n |-> @.n + 1, pages |-> pages, ret |-> results]]
    ELSE (<<query, engines>> :> [n |-> 1, pages |-> pages, ret |-> results]) @@ calls

\* the locals of a scan() call that has not started
NoScan == [pc |-> "idle", options |-> DefaultOptions, queries |-> <<>>, qi |-> 1,
           all_results |-> <<>>]

\* no BaseScraper.fetch call made
NoFetchCall == [cap |-> 0, retries |-> 0, log |-> <<>>, ret |-> None]

\* no search call made on the provider
NoSearch == [pages |-> 0, page |-> 0, results |-> <<>>, log |-> <<>>, fetched |-> <<>>,
             ret |-> <<>>]

\* BaseScraper.__init__: self.session = None (0), no session made or closed,
\* no search running
NoSession == [session |-> 0, created |-> 0, closed |-> {}, searches |-> <<>>]

\* no search_all call running
NoAggCall ==
    [engines |-> <<>>, tasks |-> <<>>, outcomes |-> <<>>, lists |-> <<>>,
     order |-> <<>>, ret |-> <<>>, exc |-> "none"]

(***************************************************************************)
(* The bodies a 200 response carries in a scan.                            *)
(***************************************************************************)
ExactOcc(parts) == [exact |-> TRUE, parts |-> Range(parts)]

PageAll ==
    [nonempty |-> TRUE, name |-> ExactOcc(NameParts), email |-> "exact",
     phone |-> "exact", address |-> ExactOcc(AddressParts), pii |-> TRUE]
PageNothing ==
    [nonempty |-> TRUE, name |-> NoOccurrence, email |-> "none",
     phone |-> "none", address |-> NoOccurrence, pii |-> FALSE]

ScanBodies == {EmptyBody, PageAll, PageNothing}

(***************************************************************************)
(* PrivacyScanner._fetch_with_retry, one attempt of the loop.              *)
(* An attempt's outcome o is [kind, body]:                                 *)
(*   "NameError"     the name aiohttp is not bound: raised before any      *)
(*                   request is made, handled by `except Exception`        *)
(*   "200"           response.status == 200, with the body                 *)
(*   "404"           response.status == 404                                *)
(*   "other_status"  any other status                                      *)
(*   "exception"     the request raised (network error, timeout)           *)
(***************************************************************************)
Attempt(kind, body) == [kind |-> kind, body |-> body]

AttemptOutcomes(names, bodies) ==
    IF "aiohttp" \notin names THEN {Attempt("NameError", EmptyBody)}
    ELSE {Attempt("200", b) : b \in bodies}
         \cup {Attempt(k, EmptyBody) : k \in {"404", "other_status", "exception"}}

Failing(o) == o.kind \in {"other_status", "exception", "NameError"}

\* `if attempt < max_retries - 1: await asyncio.sleep(2 ** attempt)`
SleepsAfter(o, att, mr) == Failing(o) /\ att < mr - 1

\* the call returns after this attempt: a return statement in the loop,
\* or the loop ends (range(max_retries) is exhausted)
FetchReturns(o, att, mr) == ~Failing(o) \/ att + 1 >= mr

\* line 141: `return None` on a 404; line 151: `return None` after the loop
NotFoundReturn == None
ExhaustedReturn == None

ReturnValue(o) ==
    CASE o.kind = "200" -> Text(o.body)
      [] o.kind = "404" -> NotFoundReturn
      [] OTHER -> ExhaustedReturn

\* the return statement taken
ReturnPath(o) ==
    CASE o.kind = "200" -> "return_text"
      [] o.kind = "404" -> "return_404"
      [] OTHER -> "return_exhausted"

Event(ev, n, kind) == [ev |-> ev, n |-> n, kind |-> kind]

\* the log of an attempt whose backoff is linear
LogEntry_LinearBackoff(o, att, mr) ==
    <<Event("attempt", att, o.kind)>>
    \o (IF SleepsAfter(o, att, mr) THEN <<Event("sleep", 2 * att, "sleep")>> ELSE <<>>)

LogEntry(o, att, mr) ==
    <<Event("attempt", att, o.kind)>>
    \o (IF SleepsAfter(o, att, mr) THEN <<Event("sleep", 2 ^ att, "sleep")>> ELSE <<>>)

RequestMade(o) == o.kind # "NameError"

\* how scan sees the fetch of a candidate
FetchOutcome(o) ==
    CASE o.kind = "200" /\ o.body.nonempty -> "ok"
      [] o.kind = "200" -> "ok_empty"
      [] o.kind = "404" -> "not_found"
      [] OTHER -> "unavailable"

(***************************************************************************)
(* scan(): the control flow between its await points.                      *)
(***************************************************************************)
\* no except clause around the candidate
Caught_Nothing(exc) == FALSE

\* a handler that names the exception of the matcher only
Caught_IndexErrorOnly(exc) == exc = "IndexError"

\* `except Exception as e` of the per-candidate try
Caught(exc) == exc \in {"IndexError", "NameError"}

Report(info, opts, unique, detailed) ==
    [returned |-> TRUE, user_info |-> info,
     total_results_found |-> Len(unique),
     detailed_results |-> detailed,
     summary |-> generate_summary(detailed),
     options |-> opts]

\* lines 108-126: sort, summarise, return
Finish(info, opts, unique, nd) ==
    \E sorted \in {sort_by_privacy_score(nd)} :
        /\ pc' = "done"
        /\ detailed_results' = sorted
        /\ report' \in {Report(info, opts, unique, sorted)}
        /\ raised' = "none"
        /\ ci' = 1

\* lines 76-84: deduplicate, then enter the per-candidate loop
StartProcessing(info, opts, nall) ==
    \E unique \in {deduplicate_results(nall)} :
        /\ unique_results' = unique
        /\ qi' = 1
        /\ IF Retained(unique, opts) = <<>>
           THEN Finish(info, opts, unique, <<>>)
           ELSE /\ pc' = "process"
                /\ ci' = 1
                /\ detailed_results' = <<>>
                /\ UNCHANGED <<report, raised>>

\* lines 66-74: the social loop runs over queries[:2] when platforms are given
SocialQueries(qs, opts) ==
    IF opts.social_platforms # <<>> THEN SubSeq(qs, 1, Min(2, Len(qs))) ELSE <<>>

\* the position after the search for query number nqi - 1 of the social loop
AfterSocial(info, opts, qs, nqi, nall) ==
    IF nqi <= Len(SocialQueries(qs, opts))
    THEN /\ pc' = "social"
         /\ qi' = nqi
         /\ UNCHANGED <<unique_results, ci, detailed_results, report, raised>>
    ELSE StartProcessing(info, opts, nall)

\* the position after the search for query number nqi - 1 of the engine loop
AfterSearch(info, opts, qs, nqi, nall) ==
    IF nqi <= Len(qs)
    THEN /\ pc' = "search"
         /\ qi' = nqi
         /\ UNCHANGED <<unique_results, ci, detailed_results, report, raised>>
    ELSE AfterSocial(info, opts, qs, 1, nall)

\* arguments of a matcher call: the candidate (or the page's URL), the page text, the profile
Args(fn, result, page, info) == [fn |-> fn, result |-> result, page |-> page, info |-> info]
NoArgs == Args("none", Candidate(EmptyUrl, "", {}), EmptyBody, EmptyProfile)

(***************************************************************************)
(* Initial state: a PrivacyScanner after __init__, no call running.        *)
(* The module privacy_scanner.py uses the names aiohttp and re without     *)
(* importing them: bound_names = {} is the module as it is shipped, the    *)
(* other values are the module run with those names supplied.              *)
(***************************************************************************)
InitWith(start, names, budget) ==
    /\ bound_names \in names
    /\ result_budget = budget
    /\ results_cache = EmptyCache
    /\ pc = start
    /\ user_info = EmptyProfile
    /\ options = DefaultOptions
    /\ queries = <<>>
    /\ qi = 1
    /\ all_results = <<>>
    /\ unique_results = <<>>
    /\ ci = 1
    /\ detailed_results = <<>>
    /\ attempt = 0
    /\ max_retries = DefaultMaxRetries
    /\ fetch_log = <<>>
    /\ fetch_ret = None
    /\ fetch_path = "none"
    /\ analysis = <<>>
    /\ net_activity = FALSE
    /\ matcher_args = NoArgs
    /\ extracted = Raises("none")
    /\ report = NoReport
    /\ raised = "none"
    /\ scan_count = 0
    /\ search_calls = NoCalls
    /\ agg_call = NoAggCall
    /\ match_runs = <<>>
    /\ scans = [s \in {} |-> NoScan]
    /\ fetch_call = NoFetchCall
    /\ search_run = NoSearch
    /\ provider = NoSession

Init == InitWith("idle", SUBSET {"aiohttp", "re"}, MaxAllResults)

\* the same scanner, in an environment that returns fewer candidates
LiveInit == InitWith("idle", SUBSET {"aiohttp", "re"}, MaxLiveResults)

side_vars == <<scans, fetch_call, search_run, provider>>
call_vars == <<agg_call, match_runs, side_vars>>
other_vars == <<scan_count, search_calls, call_vars>>
fetch_vars == <<attempt, max_retries, fetch_log, fetch_ret, fetch_path>>
matcher_vars == <<matcher_args, extracted>>
scan_vars == <<user_info, options, queries, qi, all_results, unique_results, ci,
               detailed_results, analysis, net_activity, report, raised>>

(***************************************************************************)
(* scan(user_info, options): lines 37-48, up to the first await.           *)
(***************************************************************************)
ScanStart(info, opts) ==
    /\ pc = "idle"
    /\ user_info' = info
    /\ options' = opts
    /\ queries' = generate_search_queries(info)
    /\ all_results' = <<>>
    /\ analysis' = <<>>
    /\ net_activity' = FALSE
    /\ AfterSearch(info, opts, generate_search_queries(info), 1, <<>>)
    /\ scan_count' = scan_count + 1
    /\ UNCHANGED <<call_vars, search_calls, bound_names, result_budget, results_cache, fetch_vars, matcher_vars>>

\* lines 52-55 and 64: the key is cached
SearchCached ==
    /\ pc = "search"
    /\ cache_key(queries[qi], options) \in DOMAIN results_cache
    /\ LET results == results_cache[cache_key(queries[qi], options)]
       IN  /\ all_results' = all_results \o results
           /\ AfterSearch(user_info, options, queries, qi + 1, all_results \o results)
    /\ UNCHANGED <<other_vars, bound_names, result_budget, results_cache, user_info, options, queries,
                   fetch_vars, analysis, net_activity, matcher_vars>>

\* lines 52-61: the key is not cached, search_all is awaited
SearchBegin ==
    /\ pc = "search"
    /\ cache_key(queries[qi], options) \notin DOMAIN results_cache
    /\ pc' = "searching"
    /\ net_activity' = TRUE
    /\ UNCHANGED <<other_vars, bound_names, result_budget, results_cache, user_info, options, queries, qi,
                   all_results, unique_results, ci, detailed_results, fetch_vars,
                   analysis, matcher_vars, report, raised>>

\* the lists the providers of a search_all call return: each selected and
\* registered provider any of its lists, within the bound of the scan
SearchOutputs(names, registered, sofar) ==
    LET selected == Range(names) \cap registered
    IN  {out \in [selected -> UNION {ProviderOutputs(e) : e \in selected}] :
            /\ \A e \in selected : out[e] \in ProviderOutputs(e)
            /\ sofar + Len(ConcatOutputs(names, 1, registered, out)) <= result_budget}

\* lines 57-64: search_all returns, the result is cached and appended
SearchEnd ==
    /\ pc = "searching"
    /\ \E out \in SearchOutputs(options.search_engines, RegisteredEngines,
                                Len(all_results)) :
       \E results \in {search_all(options.search_engines, out)} :
           /\ results_cache' =
                 (cache_key(queries[qi], options) :> results) @@ results_cache
           /\ all_results' = all_results \o results
           /\ AfterSearch(user_info, options, queries, qi + 1, all_results \o results)
           /\ search_calls' = CountCall(search_calls, queries[qi], options.search_engines,
                                        options.pages_per_engine, results)
    /\ UNCHANGED <<call_vars, scan_count, bound_names, result_budget, user_info, options, queries, fetch_vars,
                   analysis, net_activity, matcher_vars>>

\* lines 69-74: one search of the social loop
SocialSearch ==
    /\ pc = "social"
    /\ net_activity' = TRUE
    /\ \E out \in SearchOutputs(options.social_platforms, RegisteredPlatforms,
                                Len(all_results)) :
       \E results \in {social_search_all(options.social_platforms, out)} :
           /\ all_results' = all_results \o results
           /\ AfterSocial(user_info, options, queries, qi + 1, all_results \o results)
    /\ UNCHANGED <<other_vars, bound_names, result_budget, results_cache, user_info, options, queries,
                   fetch_vars, analysis, matcher_vars>>

(***************************************************************************)
(* scan(), lines 84-106: the candidate unique_results[ci].                 *)
(***************************************************************************)
\* an attempt of its fetch fails and the loop goes on, after the sleep
FetchRetry(o) ==
    /\ pc = "process"
    /\ o \in AttemptOutcomes(bound_names, ScanBodies)
    /\ ~FetchReturns(o, attempt, max_retries)
    /\ attempt' = attempt + 1
    /\ fetch_log' = fetch_log \o LogEntry(o, attempt, max_retries)
    /\ net_activity' = (net_activity \/ RequestMade(o))
    /\ UNCHANGED <<other_vars, bound_names, result_budget, results_cache, pc, user_info, options, queries, qi,
                   all_results, unique_results, ci, detailed_results, max_retries,
                   fetch_ret, fetch_path, analysis, matcher_vars, report, raised>>

\* the matcher scan runs on what the fetch returned
Analyse(result, html, info, names) ==
    IF Truthy(html) THEN extract_personal_info(result.url, html.body, info)
    ELSE analyze_snippet(result, info, names)

\* the last attempt of its fetch, the analysis of what it returned, and the
\* step to the next candidate or to the end of the scan
ProcessCandidate(o) ==
    /\ pc = "process"
    /\ o \in AttemptOutcomes(bound_names, ScanBodies)
    /\ FetchReturns(o, attempt, max_retries)
    /\ \E result \in {Retained(unique_results, options)[ci]} :
       \E outcome \in {Analyse(result, ReturnValue(o), user_info, bound_names)} :
       \E nd \in {IF outcome.exc = "none"
                  THEN Append(detailed_results, Merged(result, outcome))
                  ELSE detailed_results} :
           /\ analysis' = Append(analysis,
                  [fetch |-> FetchOutcome(o),
                   by |-> IF Truthy(ReturnValue(o)) THEN "full" ELSE "snippet",
                   exc |-> outcome.exc])
           /\ IF outcome.exc # "none" /\ ~Caught(outcome.exc)
              THEN /\ pc' = "done"
                   /\ raised' = outcome.exc
                   /\ report' = NoReport
                   /\ UNCHANGED <<ci, detailed_results>>
              ELSE IF ci + 1 <= Len(Retained(unique_results, options))
              THEN /\ pc' = "process"
                   /\ ci' = ci + 1
                   /\ detailed_results' = nd
                   /\ UNCHANGED <<report, raised>>
              ELSE Finish(user_info, options, unique_results, nd)
    /\ attempt' = 0
    /\ fetch_log' = <<>>
    /\ net_activity' = (net_activity \/ RequestMade(o))
    /\ UNCHANGED <<other_vars, bound_names, result_budget, results_cache, user_info, options, queries, qi,
                   all_results, unique_results, max_retries, fetch_ret, fetch_path,
                   matcher_vars>>

\* Config.CONCURRENT_REQUESTS
CONCURRENT_REQUESTS == 10

\* every retained candidate is being processed at once
in_progress_FanOut(p, i, retained) ==
    IF p = "process" THEN 1..Len(retained) ELSE {}

\* lines 84-104: the candidates whose fetch+match step has begun and not
\* ended. The loop awaits the step of one candidate before it takes the next.
in_progress(p, i, retained) ==
    IF p = "process" THEN {i} ELSE {}

\* every outcome an attempt can have, for any set of bound names
AnyAttempt == UNION {AttemptOutcomes(names, ScanBodies) : names \in SUBSET {"aiohttp", "re"}}

Next ==
    \/ \E info \in Profiles, opts \in OptionChoices : ScanStart(info, opts)
    \/ SearchBegin
    \/ SearchEnd
    \/ SocialSearch
    \/ \E o \in AnyAttempt : FetchRetry(o)
    \/ \E o \in AnyAttempt : ProcessCandidate(o)

Spec == Init /\ [][Next]_vars

\* the event loop runs every coroutine that is ready, and every awaited
\* search, request and sleep of the model ends
FairSpec == LiveInit /\ [][Next]_vars /\ WF_vars(Next)

(***************************************************************************)
(* A sequence of scans on one PrivacyScanner instance, one after the       *)
(* other: results_cache lives as long as the instance.                     *)
(***************************************************************************)
MaxScans == 2          \* scans made on the instance
MaxCacheResults == 1   \* candidates the providers return in one of these scans

\* profiles that share queries
CacheProfiles ==
    {[EmptyProfile EXCEPT !.name = NAME],
     [EmptyProfile EXCEPT !.email = EMAIL],
     [EmptyProfile EXCEPT !.name = NAME, !.email = EMAIL]}

\* the same queries searched with two provider lists and two page counts
CacheOptions ==
    {[DefaultOptions EXCEPT !.social_platforms = <<>>],
     [DefaultOptions EXCEPT !.social_platforms = <<>>, !.pages_per_engine = 1],
     [DefaultOptions EXCEPT !.social_platforms = <<>>, !.search_engines = <<"bing">>]}

CacheInit == InitWith("idle", {{}}, MaxCacheResults)

\* scan has returned (or raised); the caller may call it again: the locals
\* of the finished call are gone
ScanAgain ==
    /\ pc = "done"
    /\ scan_count < MaxScans
    /\ pc' = "idle"
    /\ user_info' = EmptyProfile
    /\ options' = DefaultOptions
    /\ queries' = <<>>
    /\ qi' = 1
    /\ all_results' = <<>>
    /\ unique_results' = <<>>
    /\ ci' = 1
    /\ detailed_results' = <<>>
    /\ analysis' = <<>>
    /\ net_activity' = FALSE
    /\ report' = NoReport
    /\ raised' = "none"
    /\ UNCHANGED <<other_vars, bound_names, result_budget, results_cache, fetch_vars,
                   matcher_vars>>

CacheNext ==
    \/ \E info \in CacheProfiles, opts \in CacheOptions : ScanStart(info, opts)
    \/ SearchCached
    \/ SearchBegin
    \/ SearchEnd
    \/ \E o \in AnyAttempt : FetchRetry(o)
    \/ \E o \in AnyAttempt : ProcessCandidate(o)
    \/ ScanAgain

CacheSpec == CacheInit /\ [][CacheNext]_vars

(***************************************************************************)
(* _fetch_with_retry(url, max_retries) called on its own.                  *)
(***************************************************************************)
FetchInit == InitWith("fetch_idle", SUBSET {"aiohttp", "re"}, MaxAllResults)

\* the call; with max_retries = 0 the loop body never runs
FetchCall(mr) ==
    /\ pc = "fetch_idle"
    /\ max_retries' = mr
    /\ attempt' = 0
    /\ fetch_log' = <<>>
    /\ IF mr <= 0
       THEN /\ pc' = "fetched"
            /\ fetch_ret' = ExhaustedReturn
            /\ fetch_path' = "return_exhausted"
       ELSE /\ pc' = "fetch"
            /\ UNCHANGED <<fetch_ret, fetch_path>>
    /\ UNCHANGED <<other_vars, bound_names, result_budget, results_cache, scan_vars, matcher_vars>>

\* an attempt fails and the loop goes on, after the sleep
FetchAttemptFails(o) ==
    /\ pc = "fetch"
    /\ o \in AttemptOutcomes(bound_names, ScanBodies)
    /\ ~FetchReturns(o, attempt, max_retries)
    /\ attempt' = attempt + 1
    /\ fetch_log' = fetch_log \o LogEntry(o, attempt, max_retries)
    /\ UNCHANGED <<other_vars, bound_names, result_budget, results_cache, pc, max_retries, fetch_ret, fetch_path,
                   scan_vars, matcher_vars>>

\* the attempt after which the call returns
FetchAttemptReturns(o) ==
    /\ pc = "fetch"
    /\ o \in AttemptOutcomes(bound_names, ScanBodies)
    /\ FetchReturns(o, attempt, max_retries)
    /\ fetch_log' = fetch_log \o LogEntry(o, attempt, max_retries)
    /\ fetch_ret' = ReturnValue(o)
    /\ fetch_path' = ReturnPath(o)
    /\ pc' = "fetched"
    /\ UNCHANGED <<other_vars, bound_names, result_budget, results_cache, attempt, max_retries,
                   scan_vars, matcher_vars>>

FetchNext ==
    \/ \E mr \in 0..MaxRetriesBound : FetchCall(mr)
    \/ \E o \in AnyAttempt : FetchAttemptFails(o)
    \/ \E o \in AnyAttempt : FetchAttemptReturns(o)

FetchSpec == FetchInit /\ [][FetchNext]_vars

(***************************************************************************)
(* The two matchers called on their own, on any page and any candidate.    *)
(***************************************************************************)
\* the matchers use no name but re
MatchInit == InitWith("match_idle", SUBSET {"re"}, MaxAllResults)

\* the candidates the full matcher is called on: any host
PageCandidates == {Candidate(Url(n, "/page", ""), "google", {}) : n \in Netlocs}

\* the candidates the snippet matcher is called on: any snippet
SnippetCandidates ==
    {Candidate(Url("example.com", "/page", ""), "google", has) :
        has \in SUBSET {"name", "email", "phone"}}

\* DataExtractor.extract_personal_info(url, html_content, user_info)
ExtractCall ==
    /\ pc = "match_idle"
    /\ pc' = "matched"
    /\ \E result \in PageCandidates, page \in Pages, info \in Profiles :
          /\ matcher_args' = Args("extract_personal_info", result, page, info)
          /\ extracted' = extract_personal_info(result.url, page, info)
    /\ UNCHANGED <<other_vars, bound_names, result_budget, results_cache, fetch_vars, scan_vars>>

\* PrivacyScanner._analyze_snippet(result, user_info)
SnippetCall ==
    /\ pc = "match_idle"
    /\ pc' = "matched"
    /\ \E result \in SnippetCandidates, info \in Profiles :
          /\ matcher_args' = Args("analyze_snippet", result, EmptyBody, info)
          /\ extracted' = analyze_snippet(result, info, bound_names)
    /\ UNCHANGED <<other_vars, bound_names, result_budget, results_cache, fetch_vars, scan_vars>>

MatchNext ==
    \/ ExtractCall
    \/ SnippetCall

MatchSpec == MatchInit /\ [][MatchNext]_vars

(***************************************************************************)
(* SearchEngineAggregator.search_all called on its own.  One task per      *)
(* name of the argument that is registered, in the order of the argument;  *)
(* the tasks end in any order; asyncio.gather gives their values in the    *)
(* order of the tasks.                                                     *)
(***************************************************************************)
\* what engine.search does: it returns its list, or it raises after it has
\* collected the results of the pages fetched so far
SearchOutcome(exc, results) == [raised |-> exc, results |-> results]

ProviderOutcomes(engine) ==
    {SearchOutcome(r, l) : r \in BOOLEAN, l \in ProviderOutputs(engine)}

\* a task that returns what the search collected although it raised
search_engine_KeepsPartial(o) == o.results

\* _search_engine: the list of the search, [] when it raised
search_engine(o) == IF o.raised THEN <<>> ELSE o.results

\* the names of the argument for which a task is created (lines 306-310)
RECURSIVE TasksOf(_, _)
TasksOf(engines, registered) ==
    IF engines = <<>> THEN <<>>
    ELSE (IF Head(engines) \in registered THEN <<Head(engines)>> ELSE <<>>)
         \o TasksOf(Tail(engines), registered)

\* lines 316-318: the lists of the tasks, extended in the order of the tasks
RECURSIVE ExtendAll(_, _)
ExtendAll(lists, i) ==
    IF i > Len(lists) THEN <<>> ELSE lists[i] \o ExtendAll(lists, i + 1)

\* the engines arguments of the calls
EngineArguments ==
    {<<"google", "bing">>, <<"bing", "google">>, <<"google">>, <<"bing">>,
     <<"bing", "baidu">>, <<"yahoo", "google">>, <<>>}

AggInit == InitWith("agg_idle", {{}}, MaxAllResults)

agg_unchanged == <<bound_names, result_budget, results_cache, scan_vars, fetch_vars,
                   matcher_vars, scan_count, search_calls, match_runs, side_vars>>

\* search_all(query, engines): lines 297-313, up to the await of gather
AggCall(engines) ==
    /\ pc = "agg_idle"
    /\ pc' = "agg_gather"
    /\ agg_call' = [NoAggCall EXCEPT !.engines = engines,
                                     !.tasks = TasksOf(engines, RegisteredEngines),
                                     !.outcomes = [i \in {} |-> SearchOutcome(FALSE, <<>>)],
                                     !.lists = [i \in {} |-> <<>>]]
    /\ UNCHANGED agg_unchanged

\* the task number i ends: _search_engine returns
TaskEnds(i) ==
    /\ pc = "agg_gather"
    /\ i \in 1..Len(agg_call.tasks)
    /\ i \notin DOMAIN agg_call.lists
    /\ \E o \in ProviderOutcomes(agg_call.tasks[i]) :
          agg_call' = [agg_call EXCEPT !.outcomes = (i :> o) @@ @,
                                       !.lists = (i :> search_engine(o)) @@ @,
                                       !.order = Append(@, i)]
    /\ UNCHANGED <<pc, agg_unchanged>>

\* every task has ended: gather returns, lines 315-332
AggReturn ==
    /\ pc = "agg_gather"
    /\ DOMAIN agg_call.lists = 1..Len(agg_call.tasks)
    /\ pc' = "agg_done"
    /\ agg_call' = [agg_call EXCEPT
                       !.ret = deduplicate_results(ExtendAll(agg_call.lists, 1))]
    /\ UNCHANGED agg_unchanged

AggNext ==
    \/ \E engines \in EngineArguments : AggCall(engines)
    \/ \E i \in 1..Len(agg_call.tasks) : TaskEnds(i)
    \/ AggReturn

AggSpec == AggInit /\ [][AggNext]_vars

(***************************************************************************)
(* Utils.generate_search_queries called on its own, on profiles in which   *)
(* attributes may hold the same value.                                     *)
(***************************************************************************)
QueryValues == {"", NAME, EMAIL, PHONE}

QueryProfiles == [name : QueryValues, email : QueryValues,
                  phone : QueryValues, address : QueryValues]

QueryInit == InitWith("query_idle", {{}}, MaxAllResults)

QueryCall(info) ==
    /\ pc = "query_idle"
    /\ pc' = "queried"
    /\ user_info' = info
    /\ queries' = generate_search_queries(info)
    /\ UNCHANGED <<other_vars, bound_names, result_budget, results_cache, options, qi,
                   all_results, unique_results, ci, detailed_results, analysis,
                   net_activity, report, raised, fetch_vars, matcher_vars>>

QueryNext == \E info \in QueryProfiles : QueryCall(info)

QuerySpec == QueryInit /\ [][QueryNext]_vars

(***************************************************************************)
(* PrivacyScanner._generate_summary called on its own, on lists of         *)
(* detailed results the two matchers produce.                              *)
(***************************************************************************)
MaxSummaryResults == 4   \* longest list of detailed results summarised

FullProfile == [name |-> NAME, email |-> EMAIL, phone |-> PHONE, address |-> ADDRESS]
EmailOnly == [EmptyProfile EXCEPT !.email = EMAIL]
NameOnly == [EmptyProfile EXCEPT !.name = NAME]

\* detailed results: {**result, **extracted} for some candidates, pages and profiles
SummaryResults ==
    {Merged(c, extract_personal_info(c.url, pg, info)) :
        c \in {GoogleHit, BingPaste}, pg \in {PageAll, PageNothing},
        info \in {FullProfile, EmailOnly, NameOnly}}
    \ {Merged(c, Raises("IndexError")) : c \in {GoogleHit, BingPaste}}

RECURSIVE ListsUpTo(_, _)
ListsUpTo(S, n) ==
    IF n = 0 THEN {<<>>}
    ELSE ListsUpTo(S, n - 1)
         \cup {Append(l, x) : l \in {m \in ListsUpTo(S, n - 1) : Len(m) = n - 1}, x \in S}

SummaryInit == InitWith("summary_idle", {{}}, MaxAllResults)

SummaryCall(results) ==
    /\ pc' = "summarised"
    /\ detailed_results' = results
    /\ report' = [NoReport EXCEPT !.detailed_results = results,
                                  !.summary = generate_summary(results)]
    /\ UNCHANGED <<other_vars, bound_names, result_budget, results_cache, user_info, options,
                   queries, qi, all_results, unique_results, ci, analysis,
                   net_activity, raised, fetch_vars, matcher_vars>>

SummaryNext ==
    /\ pc = "summary_idle"
    /\ \E results \in ListsUpTo(SummaryResults, MaxSummaryResults) : SummaryCall(results)

SummarySpec == SummaryInit /\ [][SummaryNext]_vars

(***************************************************************************)
(* DataExtractor._calculate_privacy_score called on its own, on any match  *)
(* set made of the records _find_matches builds.                           *)
(***************************************************************************)
\* the records _find_matches can store under the key k
MatchesOf(k) == {FoundMatch(pg, k) : pg \in Pages}

\* the key is not in the match set
Absent == Match(0, "absent")

OptionalMatch(k) == MatchesOf(k) \cup {Absent}

MatchSets ==
    {[k \in {x \in MatchKeys : r[x] # Absent} |-> r[k]] :
        r \in [name : OptionalMatch("name"), email : OptionalMatch("email"),
               phone : OptionalMatch("phone"), address : OptionalMatch("address"),
               additional_pii : OptionalMatch("additional_pii")]}

ScoreInit == InitWith("score_idle", {{}}, MaxAllResults)

ScoreCall ==
    /\ pc = "score_idle"
    /\ pc' = "scored"
    /\ \E matches \in MatchSets, n \in Netlocs :
          /\ matcher_args' = Args("calculate_privacy_score",
                                  Candidate(Url(n, "/page", ""), "", {}),
                                  EmptyBody, EmptyProfile)
          /\ extracted' = Outcome("none", matches,
                                  calculate_privacy_score(matches, Url(n, "/page", "")),
                                  "none", "none")
    /\ UNCHANGED <<other_vars, bound_names, result_budget, results_cache, fetch_vars, scan_vars>>

ScoreSpec == ScoreInit /\ [][ScoreCall]_vars

(***************************************************************************)
(* Repeated runs of the full matcher on one input.  extract_phone and      *)
(* _find_additional_pii return list(set(..)): the order of the list is the *)
(* iteration order of a set of strings, which depends on the hash seed of  *)
(* the interpreter process (any order; the same order within a process).   *)
(* Here a page is the sets of tokens the patterns find in it.              *)
(***************************************************************************)
TokenPage(phones, examples) == [phones |-> phones, examples |-> examples]

\* phone-shaped tokens that contain the digits of PHONE: partial matches
PartialPhones == {"15551234567", "25551234567"}

\* examples of one generic PII category (ssn)
SsnExamples == {"111-11-1111", "222-22-2222", "333-33-3333",
                "444-44-4444", "555-55-5555", "666-66-6666"}

\* list(set(found))[:5]
PiiLimit == 5

MatcherPages ==
    {TokenPage(PartialPhones, {}),
     TokenPage({}, SsnExamples),
     TokenPage({"15551234567"}, {"111-11-1111", "222-22-2222"})}

\* list(set(S)): the elements of S in some order
RECURSIVE ListsOfSet(_)
ListsOfSet(S) ==
    IF S = {} THEN {<<>>}
    ELSE UNION {{<<x>> \o l : l \in ListsOfSet(S \ {x})} : x \in S}

\* a match record with the value found in the page
FoundRecord(conf, type, found) == [conf |-> conf, match_type |-> type, found |-> found]

\* lines 123-141 on partial matches only: every token overwrites
\* matches['phone'], the last of the list stays
phone_match(phones_found) ==
    IF phones_found = <<>> THEN <<>>
    ELSE <<FoundRecord((ConfScale * 8) \div 10, "partial",
                       phones_found[Len(phones_found)])>>

\* _find_additional_pii: the first 5 of the list, None for no example
additional_pii(found) ==
    IF found = <<>> THEN <<>>
    ELSE <<FoundRecord(ConfScale, "pii", SubSeq(found, 1, Min(PiiLimit, Len(found))))>>

\* the matches of a run whose two lists came in these orders
matches_of_run(phones_found, found) ==
    [k \in {x \in {"phone"} : phones_found # <<>>}
           \cup {x \in {"additional_pii"} : found # <<>>} |->
        IF k = "phone" THEN phone_match(phones_found)[1] ELSE additional_pii(found)[1]]

RunInit == InitWith("run_idle", {{}}, MaxAllResults)

run_unchanged == <<bound_names, result_budget, results_cache, scan_vars, fetch_vars,
                   extracted, scan_count, search_calls, agg_call, side_vars>>

\* the input of the runs: a page, the URL, the profile
RunInput(page) ==
    /\ pc = "run_idle"
    /\ pc' = "run"
    /\ matcher_args' = Args("extract_personal_info",
                            Candidate(Url("example.com", "/page", ""), "", {}),
                            page, [EmptyProfile EXCEPT !.phone = PHONE])
    /\ UNCHANGED <<match_runs, run_unchanged>>

\* one run of extract_personal_info on the input, in some interpreter process
MatcherRun ==
    /\ pc = "run"
    /\ Len(match_runs) < 2
    /\ \E phones_found \in ListsOfSet(matcher_args.page.phones),
          found \in ListsOfSet(matcher_args.page.examples) :
       \E matches \in {matches_of_run(phones_found, found)} :
          match_runs' = Append(match_runs,
              [matched_info |-> matches,
               privacy_score |-> calculate_privacy_score(matches, matcher_args.result.url)])
    /\ UNCHANGED <<pc, matcher_args, run_unchanged>>

RunNext ==
    \/ \E page \in MatcherPages : RunInput(page)
    \/ MatcherRun

RunSpec == RunInit /\ [][RunNext]_vars

(***************************************************************************)
(* Several scan() calls running concurrently on one PrivacyScanner         *)
(* instance (coroutines of one event loop): each is followed through its   *)
(* engine loop, lines 49-64, the only part of scan that reads or writes    *)
(* results_cache. A coroutine runs without interruption from one await to  *)
(* the next; the only await of the loop is the search_all call of line 57. *)
(***************************************************************************)
MaxConcurrentScans == 2    \* scan() calls running at the same time

ConcInit == InitWith("concurrent", {{}}, MaxCacheResults)

conc_unchanged == <<bound_names, result_budget, pc, scan_vars, fetch_vars, matcher_vars,
                    scan_count, agg_call, match_runs, fetch_call, search_run, provider>>

\* the position of a scan after the search for query number nqi - 1
NextQuery(scan, nqi, nall) ==
    [scan EXCEPT !.pc = IF nqi <= Len(scan.queries) THEN "search" ELSE "searched",
                 !.qi = nqi, !.all_results = nall]

\* one more call of scan(): its lines 37-48
ConcScan(info, opts) ==
    /\ pc = "concurrent"
    /\ Cardinality(DOMAIN scans) < MaxConcurrentScans
    /\ scans' = (Cardinality(DOMAIN scans) + 1 :>
                    NextQuery([NoScan EXCEPT !.options = opts,
                                             !.queries = generate_search_queries(info)],
                              1, <<>>)) @@ scans
    /\ UNCHANGED <<conc_unchanged, results_cache, search_calls>>

\* lines 52-56 of one of the calls: the key is looked up; a hit is used
\* (line 64), a miss leaves the coroutine suspended in search_all
ConcLookup(s) ==
    /\ scans[s].pc = "search"
    /\ LET scan == scans[s]
           key == cache_key(scan.queries[scan.qi], scan.options)
       IN  scans' = [scans EXCEPT ![s] =
                        IF key \in DOMAIN results_cache
                        THEN NextQuery(scan, scan.qi + 1,
                                       scan.all_results \o results_cache[key])
                        ELSE [scan EXCEPT !.pc = "searching"]]
    /\ UNCHANGED <<conc_unchanged, results_cache, search_calls>>

\* lines 57-64 of one of the calls: search_all returns, the list is stored
ConcSearchEnd(s) ==
    /\ scans[s].pc = "searching"
    /\ LET scan == scans[s]
       IN  \E out \in SearchOutputs(scan.options.search_engines, RegisteredEngines,
                                    Len(scan.all_results)) :
           \E results \in {search_all(scan.options.search_engines, out)} :
               /\ results_cache' =
                     (cache_key(scan.queries[scan.qi], scan.options) :> results)
                         @@ results_cache
               /\ search_calls' = CountCall(search_calls, scan.queries[scan.qi],
                                            scan.options.search_engines,
                                            scan.options.pages_per_engine, results)
               /\ scans' = [scans EXCEPT ![s] =
                               NextQuery(scan, scan.qi + 1, scan.all_results \o results)]
    /\ UNCHANGED conc_unchanged

ConcNext ==
    \/ \E info \in CacheProfiles, opts \in CacheOptions : ConcScan(info, opts)
    \/ \E s \in DOMAIN scans : ConcLookup(s)
    \/ \E s \in DOMAIN scans : ConcSearchEnd(s)

ConcSpec == ConcInit /\ [][ConcNext]_vars

(***************************************************************************)
(* BaseScraper.fetch(url), base.py lines 47-74, the fetch of the search    *)
(* providers. A request ends in one of                                     *)
(*   "200"           response.status == 200, with the body                 *)
(*   "429"           response.status == 429                                *)
(*   "other_status"  any other status                                      *)
(*   "timeout"       asyncio.TimeoutError                                  *)
(*   "exception"     any other exception                                   *)
(* The recursive call `self.fetch(url, retries + 1)` is followed into the  *)
(* test of its first line.                                                 *)
(***************************************************************************)
\* Config.MAX_RETRIES, the default of self.config.MAX_RETRIES
MAX_RETRIES == 3

Responses == {"200", "429", "other_status", "timeout", "exception"}

\* the same wait after every rate-limited response
wait_time_Fixed(retries) == 5

\* line 61: wait_time = 2 ** retries * 5
wait_time(retries) == (2 ^ retries) * 5

\* state of the scanner and of the other calls, which a provider leaves alone
scanner_vars == <<bound_names, result_budget, results_cache, scan_vars, fetch_vars,
                  matcher_vars, scan_count, search_calls>>

BaseInit == InitWith("base_idle", {{}}, MaxAllResults)

\* line 49 of the call with `retries`: the cap is tested before any request
AfterRetry(call, retries) ==
    /\ pc' = IF retries >= call.cap THEN "base_returned" ELSE "base_request"
    /\ fetch_call' = [call EXCEPT !.retries = retries, !.ret = None]

\* fetch(url), retries = 0, on a scraper whose config.MAX_RETRIES is cap
BaseFetchCall(cap) ==
    /\ pc = "base_idle"
    /\ AfterRetry([NoFetchCall EXCEPT !.cap = cap], 0)
    /\ UNCHANGED <<scanner_vars, agg_call, match_runs, scans, search_run, provider>>

\* lines 53-74: one request and what the call does with its outcome
BaseFetchRequest(resp, body) ==
    /\ pc = "base_request"
    /\ LET retries == fetch_call.retries
           requested == [fetch_call EXCEPT
                            !.log = Append(@, Event("request", retries, resp))]
       IN  CASE resp = "200" ->
                  /\ pc' = "base_returned"
                  /\ fetch_call' = [requested EXCEPT !.ret = Text(body)]
             [] resp = "429" ->
                  AfterRetry([requested EXCEPT
                                 !.log = Append(@, Event("sleep", wait_time(retries),
                                                         "sleep"))],
                             retries + 1)
             [] resp = "other_status" ->
                  /\ pc' = "base_returned"
                  /\ fetch_call' = [requested EXCEPT !.ret = None]
             [] OTHER -> AfterRetry(requested, retries + 1)
    /\ UNCHANGED <<scanner_vars, agg_call, match_runs, scans, search_run, provider>>

BaseNext ==
    \/ \E cap \in 0..MAX_RETRIES : BaseFetchCall(cap)
    \/ \E resp \in Responses, body \in ScanBodies : BaseFetchRequest(resp, body)

BaseSpec == BaseInit /\ [][BaseNext]_vars

(***************************************************************************)
(* search(query, pages) of a paging provider: GoogleScraper (lines 19-46), *)
(* BingScraper (88-113) and BaiduScraper (153-184) run the same loop.      *)
(* The fetch of a page returns None, or the text of the response; the      *)
(* parser returns the candidates of a page in rank order.                  *)
(***************************************************************************)
MaxPages == 3    \* largest `pages` a search is called with

\* Config.DEFAULT_DELAY
DEFAULT_DELAY == 2

\* what self.fetch(url) can return for a result page
PageFetches == {None, Text(EmptyBody), Text(PageAll)}

\* what parse_results can return for the text of a result page
ParsedLists(html) ==
    IF Truthy(html) THEN SeqsOver({GoogleHit, BingHit}) ELSE {<<>>}

\* the page results are put in front
extend_AtFront(results, page_results) == page_results \o results

\* results.extend(page_results)
extend(results, page_results) == results \o page_results

PagedInit == InitWith("paged_idle", {{}}, MaxAllResults)

\* `for page in range(pages)` at page number `page`: the next iteration, or
\* the return after the loop
AtPage(run, page) ==
    IF page < run.pages
    THEN /\ pc' = "paged_page"
         /\ search_run' = [run EXCEPT !.page = page]
    ELSE /\ pc' = "paged_returned"
         /\ search_run' = [run EXCEPT !.page = page, !.ret = run.results]

\* search(query, pages): lines 21-23
SearchCall(pages) ==
    /\ pc = "paged_idle"
    /\ AtPage([NoSearch EXCEPT !.pages = pages], 0)
    /\ UNCHANGED <<scanner_vars, agg_call, match_runs, scans, fetch_call, provider>>

\* one iteration of the loop: the delay, the fetch, then the parse or the break
SearchPage(html, page_results) ==
    /\ pc = "paged_page"
    /\ page_results \in ParsedLists(html)
    /\ LET page == search_run.page
           run == [search_run EXCEPT
                      !.log = @ \o (IF page > 0
                                    THEN <<Event("sleep", DEFAULT_DELAY, "sleep")>>
                                    ELSE <<>>)
                                \o <<Event("fetch", page,
                                            IF Truthy(html) THEN "text" ELSE "none")>>,
                      !.fetched = Append(@, page_results)]
       IN  IF Truthy(html)
           THEN AtPage([run EXCEPT !.results = extend(@, page_results)], page + 1)
           ELSE /\ pc' = "paged_returned"
                /\ search_run' = [run EXCEPT !.ret = run.results]
    /\ UNCHANGED <<scanner_vars, agg_call, match_runs, scans, fetch_call, provider>>

PagedNext ==
    \/ \E pages \in 0..MaxPages : SearchCall(pages)
    \/ \E html \in PageFetches :
           \E page_results \in ParsedLists(html) : SearchPage(html, page_results)

PagedSpec == PagedInit /\ [][PagedNext]_vars

(***************************************************************************)
(* _search_engine calls that overlap on one provider instance: the         *)
(* aggregator keeps one scraper object per provider id (search_engines.py  *)
(* 288-295), and every call runs `async with engine: await                 *)
(* engine.search(query, pages)` on it (334-341). A session is named by     *)
(* the number of the __aenter__ that made it.                              *)
(***************************************************************************)
MaxSearches == 3     \* _search_engine calls that overlap on the provider

SessionInit == InitWith("shared", {{}}, MaxAllResults)

session_unchanged == <<scanner_vars, pc, agg_call, match_runs, scans, fetch_call, search_run>>

\* __aexit__ (base.py 30-33) of search number t, run when its search
\* returns: `if self.session: await self.session.close()` closes the session
\* self.session is bound to now
Exited(t) ==
    [provider EXCEPT !.searches[t].pc = "exited",
                     !.closed = @ \cup ({provider.session} \ {0})]

\* search number t starts a request: fetch (base.py 57) does it on the
\* session self.session is bound to now. On a closed session the request
\* raises, every retry of fetch raises the same way, fetch returns None and
\* the search breaks out of its loop and returns.
Requesting(t) ==
    IF provider.session \in provider.closed THEN Exited(t)
    ELSE [provider EXCEPT !.searches[t].pc = "fetching",
                          !.searches[t].on = provider.session]

\* one more _search_engine call starts: __aenter__ (base.py 24-28) makes a
\* new session and binds self.session to it; search then runs up to the
\* request of its first page
SessionEnter(pages) ==
    /\ pc = "shared"
    /\ Len(provider.searches) < MaxSearches
    /\ provider' = [provider EXCEPT
                       !.session = provider.created + 1,
                       !.created = provider.created + 1,
                       !.searches = Append(@, [pc |-> "fetching",
                                               entered |-> provider.created + 1,
                                               on |-> provider.created + 1,
                                               pages_left |-> pages])]
    /\ UNCHANGED session_unchanged

\* the request of search number t ends. A request whose session was closed
\* while it was in flight may still complete or may fail; when it fails,
\* fetch retries at once. A completed page is parsed, and the search goes on
\* to the delay before its next page or returns after its last.
SessionResponse(t, completes) ==
    /\ provider.searches[t].pc = "fetching"
    /\ completes \/ provider.searches[t].on \in provider.closed
    /\ provider' =
          IF ~completes THEN Requesting(t)
          ELSE IF provider.searches[t].pages_left = 1 THEN Exited(t)
          ELSE [provider EXCEPT !.searches[t].pc = "sleeping",
                                !.searches[t].pages_left = @ - 1]
    /\ UNCHANGED session_unchanged

\* the delay between two pages ends and the next page is requested
SessionWake(t) ==
    /\ provider.searches[t].pc = "sleeping"
    /\ provider' = Requesting(t)
    /\ UNCHANGED session_unchanged

SessionNext ==
    \/ \E pages \in 1..MaxPages : SessionEnter(pages)
    \/ \E t \in 1..Len(provider.searches), completes \in BOOLEAN :
           SessionResponse(t, completes)
    \/ \E t \in 1..Len(provider.searches) : SessionWake(t)

SessionSpec == SessionInit /\ [][SessionNext]_vars

(***************************************************************************)
(* Properties.                                                             *)
(***************************************************************************)
ScanReturned == pc = "done" /\ report.returned
ScanRunning == pc \in {"search", "searching", "social", "process"}

\* the candidates scan fetches and analyses, in discovery order
RetainedNow == Retained(unique_results, options)

\* scheme + host + path of a URL, the query string stripped
NormalizedUrl(url) == <<url.scheme, url.netloc, url.path>>

\* C1: a scan of a profile whose attributes are all absent or empty ends in a
\* validation error, returns no report, and makes no provider search and no
\* page request.
C1_EmptyProfileRejected ==
    (pc = "done" /\ user_info = EmptyProfile) =>
        (raised = "ProfileInvalid" /\ ~report.returned /\ ~net_activity)

\* C2: a scan whose profile yields at least one query ends and returns a
\* report, whatever the providers and the page fetches do, and no scan ever
\* raises to its caller.
C2_ScanAlwaysReturns ==
    /\ [](raised \in {"none", "ProfileInvalid"})
    /\ (ScanRunning /\ queries # <<>>) ~> (ScanReturned /\ raised = "none")

\* a scan with queries returned its report although the processing of one
\* of its candidates raised
C2_Witness ==
    /\ ScanReturned
    /\ queries # <<>>
    /\ \E i \in 1..Len(analysis) : analysis[i].exc # "none"

\* C3: no two detailed results of a report have the same normalized URL, and
\* each is the first candidate discovered with its normalized URL.
C3_UniqueNormalizedUrls ==
    ScanReturned =>
        LET d == report.detailed_results
        IN  /\ \A i, j \in 1..Len(d) :
                  i # j => NormalizedUrl(d[i].url) # NormalizedUrl(d[j].url)
            /\ \A i \in 1..Len(d) : \E k \in 1..Len(all_results) :
                  /\ all_results[k].url = d[i].url
                  /\ all_results[k].source = d[i].source
                  /\ all_results[k].snippet_has = d[i].snippet_has
                  /\ \A m \in 1..(k - 1) :
                        NormalizedUrl(all_results[m].url) # NormalizedUrl(d[i].url)

\* two candidates whose URLs differ only by the query string were found, and
\* the report has a detailed result for their URL
C3_Witness ==
    /\ ScanReturned
    /\ \E k, m \in 1..Len(all_results) :
          /\ all_results[k].url # all_results[m].url
          /\ NormalizedUrl(all_results[k].url) = NormalizedUrl(all_results[m].url)
          /\ \E i \in 1..Len(report.detailed_results) :
                NormalizedUrl(report.detailed_results[i].url)
                    = NormalizedUrl(all_results[k].url)

\* the position of a detailed result's candidate in the deduplicated list
DiscoveryIndex(r) == CHOOSE k \in 1..Len(unique_results) : unique_results[k].url = r.url

\* C4: the detailed results of a report are in descending order of
\* privacy_score, results of equal score in their discovery order.
C4_SortedStable ==
    ScanReturned =>
        LET d == report.detailed_results
        IN  \A i, j \in 1..Len(d) :
                i < j =>
                    /\ d[i].privacy_score >= d[j].privacy_score
                    /\ d[i].privacy_score = d[j].privacy_score
                          => DiscoveryIndex(d[i]) < DiscoveryIndex(d[j])

\* a report with two results of equal score
C4_Witness ==
    /\ ScanReturned
    /\ \E i, j \in 1..Len(report.detailed_results) :
          /\ i < j
          /\ report.detailed_results[i].privacy_score
                = report.detailed_results[j].privacy_score

\* C5: the privacy_score either matcher returns is an integer from 0 to 100.
C5_ScoreInRange ==
    (pc = "matched" /\ extracted.exc = "none") => extracted.privacy_score \in 0..100

\* every attribute and additional PII matched exactly on a host of the x1.5 list
C5_Witness ==
    /\ pc = "matched"
    /\ matcher_args.fn = "extract_personal_info"
    /\ matcher_args.page = PageAll
    /\ \A k \in InfoTypes : Present(matcher_args.info, k)
    /\ matcher_args.result.url.netloc = "pastebin.com"
    /\ DOMAIN extracted.matched_info = MatchKeys
    /\ extracted.privacy_score = 100

\* the tier of a score: high from 70, medium from 40, low below
TierOf(score) == IF score >= 70 THEN "high" ELSE IF score >= 40 THEN "medium" ELSE "low"

\* C6: the risk tier either matcher returns is the tier of the privacy_score
\* it returns.
C6_TierFromScore ==
    (pc = "matched" /\ extracted.exc = "none") =>
        extracted.risk_level = TierOf(extracted.privacy_score)

\* C7: a retained candidate whose fetch ended in not found or unavailable has
\* a detailed result in the report, made by the snippet fallback: its score is
\* at most 70 and all its matches have match_type snippet.
C7_SnippetFallbackResult ==
    ScanReturned =>
        \A i \in 1..Len(analysis) :
            analysis[i].fetch \in {"not_found", "unavailable"} =>
                \E k \in 1..Len(report.detailed_results) :
                    LET r == report.detailed_results[k]
                    IN  /\ r.url = RetainedNow[i].url
                        /\ r.based_on = "snippet_analysis"
                        /\ r.privacy_score <= 70
                        /\ \A a \in DOMAIN r.matched_info :
                              r.matched_info[a].match_type = "snippet"

FailureKinds == {"other_status", "exception", "NameError"}

\* all attempts of the finished call failed
AllAttemptsFailed ==
    /\ pc = "fetched"
    /\ \A i \in 1..Len(fetch_log) :
          fetch_log[i].ev = "attempt" => fetch_log[i].kind \in FailureKinds

\* C10: when every attempt fails, the call makes max_retries attempts, sleeps
\* 2^a seconds after the failed attempt a except after the last one, and
\* returns unavailable.
C10_BackoffSchedule ==
    AllAttemptsFailed =>
        /\ Cardinality({i \in 1..Len(fetch_log) : fetch_log[i].ev = "attempt"})
              <= max_retries
        /\ Len(fetch_log) = (IF max_retries = 0 THEN 0 ELSE 2 * max_retries - 1)
        /\ \A a \in 0..(max_retries - 1) :
              /\ fetch_log[2 * a + 1].ev = "attempt"
              /\ fetch_log[2 * a + 1].n = a
              /\ a < max_retries - 1 =>
                    /\ fetch_log[2 * a + 2].ev = "sleep"
                    /\ fetch_log[2 * a + 2].n = 2 ^ a
        /\ fetch_ret = None
        /\ fetch_path = "return_exhausted"

\* three attempts failed, with sleeps of 1 and 2 seconds between them
C10_Witness ==
    /\ AllAttemptsFailed
    /\ max_retries = 3
    /\ Len(fetch_log) = 5
    /\ fetch_log[2].n = 1
    /\ fetch_log[4].n = 2

AggReturned == pc = "agg_done"

\* C11: when the search of a selected provider raises, search_all does not
\* raise, every other task has run to its end, the provider that raised
\* contributes nothing, and every result of a provider that returned is in
\* the merged list (by its normalized URL).
C11_ProviderFailureIsolated ==
    AggReturned =>
        /\ agg_call.exc = "none"
        /\ DOMAIN agg_call.outcomes = 1..Len(agg_call.tasks)
        /\ \A k \in 1..Len(agg_call.ret) :
              \E i \in DOMAIN agg_call.outcomes :
                  /\ ~agg_call.outcomes[i].raised
                  /\ agg_call.ret[k] \in Range(agg_call.outcomes[i].results)
        /\ \A i \in DOMAIN agg_call.outcomes :
              ~agg_call.outcomes[i].raised =>
                  \A r \in Range(agg_call.outcomes[i].results) :
                      \E k \in 1..Len(agg_call.ret) :
                          NormalizedUrl(agg_call.ret[k].url) = NormalizedUrl(r.url)

\* the first task to end raised after it had collected a result, the other
\* task returned a result, and search_all returned that one
C11_Witness ==
    /\ AggReturned
    /\ Len(agg_call.tasks) = 2
    /\ agg_call.outcomes[agg_call.order[1]].raised
    /\ agg_call.outcomes[agg_call.order[1]].results # <<>>
    /\ ~agg_call.outcomes[agg_call.order[2]].raised
    /\ agg_call.ret # <<>>

\* SearchEngineAggregator.engines, in the order of registration
RegistrationOrder == <<"google", "bing", "baidu", "duckduckgo">>

\* the list of the selected provider p of a finished call
ListOf(p) ==
    IF \E i \in DOMAIN agg_call.lists : agg_call.tasks[i] = p
    THEN agg_call.lists[CHOOSE i \in DOMAIN agg_call.lists : agg_call.tasks[i] = p]
    ELSE <<>>

\* C12: search_all returns the lists of the selected providers concatenated
\* in the order of registration, whatever the order of the names in the
\* argument, reduced to the first occurrence of each normalized URL.
C12_RegistrationOrder ==
    AggReturned =>
        agg_call.ret =
            deduplicate_results(
                ExtendAll([n \in 1..Len(RegistrationOrder) |->
                              ListOf(RegistrationOrder[n])], 1))

\* the combinations of attributes, in the order of precedence
Combinations ==
    << <<"name">>, <<"name", "phone">>, <<"name", "email">>,
       <<"name", "address">>, <<"email">>, <<"phone", "email">> >>

\* every attribute of the combination is present in the profile of the call
AllPresent(c) == \A i \in 1..Len(c) : user_info[c[i]] # ""

\* C13: generate_search_queries returns exactly the queries of the
\* combinations whose attributes are all present, in the order of precedence:
\* at least one query when name or email is present, none for a profile
\* without name and email.
C13_QueriesOfPresentCombinations ==
    pc = "queried" =>
        LET sel == SelectSeq(Combinations, AllPresent)
        IN  /\ queries = [i \in 1..Len(sel) |->
                            [j \in 1..Len(sel[i]) |-> user_info[sel[i][j]]]]
            /\ (user_info.name # "" \/ user_info.email # "") => Len(queries) >= 1
            /\ (user_info.name = "" /\ user_info.email = "") => queries = <<>>

\* a profile with every attribute, its six queries returned
C13_Witness ==
    /\ pc = "queried"
    /\ \A k \in InfoTypes : user_info[k] # ""
    /\ Len(queries) = 6

\* C14: the list generate_search_queries returns contains no query twice,
\* also for a profile in which two attributes have the same value.
C14_NoDuplicateQueries ==
    pc = "queried" =>
        \A i, j \in 1..Len(queries) : i # j => queries[i] # queries[j]

Summarised == pc = "summarised"

\* the results of the summarised list whose tier is level
TierCount(level) ==
    Cardinality({i \in 1..Len(detailed_results) : detailed_results[i].risk_level = level})

\* the overall tier under the policy with threshold T
PolicyTier(T) ==
    IF TierCount("high") >= T THEN "high"
    ELSE IF TierCount("medium") > 2 THEN "medium"
    ELSE "low"

\* C15: for one threshold T in {1, 3}, overall_risk_level is high when the
\* number of high-tier results is >= T, otherwise medium when the number of
\* medium-tier results is > 2, otherwise low.  Stated for each summary: its
\* overall tier is the tier of one of the two policies.
C15_OverallTierPolicy ==
    Summarised =>
        \E T \in {1, 3} : report.summary.overall_risk_level = PolicyTier(T)

\* C16: the recommendations of every summary are non-empty (the default
\* message when no rule fires), also for a list of zero results.
C16_RecommendationsNonEmpty ==
    Summarised => report.summary.recommendations # <<>>

\* C17: the three tier counts add up to the number of detailed results, the
\* count of each attribute is the number of results whose matched_info has
\* it, and additional_pii is not counted.
C17_SummaryCounts ==
    Summarised =>
        LET sm == report.summary
        IN  /\ sm.high_risk_exposures + sm.medium_risk_exposures
                  + sm.low_risk_exposures = Len(detailed_results)
            /\ \A a \in {"name", "email", "phone", "address"} :
                  GetCount(sm.exposed_information, a)
                      = Cardinality({i \in 1..Len(detailed_results) :
                                        a \in DOMAIN detailed_results[i].matched_info})
            /\ "additional_pii" \notin DOMAIN sm.exposed_information

\* four results of the three tiers, additional PII in some of them
C17_Witness ==
    /\ Summarised
    /\ Len(detailed_results) = 4
    /\ TierCount("high") >= 1 /\ TierCount("medium") >= 1 /\ TierCount("low") >= 1
    /\ \E i \in 1..4 : "additional_pii" \in DOMAIN detailed_results[i].matched_info
    /\ report.summary.exposed_information["email"] = 2

\* the match set with an exact match of the attribute k added
WithExact(matches, k) == (k :> Match(ConfScale, "exact")) @@ matches

\* C18: adding to a match set an exact match of an attribute it does not
\* have gives, for the same URL, a score that is not smaller.
C18_ScoreMonotone ==
    pc = "scored" =>
        \A k \in MatchKeys \ DOMAIN extracted.matched_info :
            calculate_privacy_score(WithExact(extracted.matched_info, k),
                                    matcher_args.result.url)
                >= extracted.privacy_score

\* a phone match alone scores 40 and scores 60 with an exact name added
C18_Witness ==
    /\ pc = "scored"
    /\ matcher_args.result.url.netloc = "example.com"
    /\ extracted.matched_info = ("phone" :> Match(ConfScale, "exact"))
    /\ extracted.privacy_score = 40
    /\ calculate_privacy_score(WithExact(extracted.matched_info, "name"),
                               matcher_args.result.url) = 60

\* C19: two runs of the full matcher on the same (url, content, identity)
\* give the same matched_info (values found and examples included) and the
\* same privacy_score.
C19_RunsIdentical ==
    \A i, j \in 1..Len(match_runs) :
        /\ match_runs[i].matched_info = match_runs[j].matched_info
        /\ match_runs[i].privacy_score = match_runs[j].privacy_score

\* the (query, provider list) the scan looks up at its position
LookedUp == <<queries[qi], options.search_engines>>

\* C20: over a sequence of scans on one instance, a lookup of a (query,
\* provider list) for which search_all was called before is a hit: the list
\* that call returned is used and search_all is not called; any other lookup
\* is a miss: search_all is called and its result is stored, so that
\* search_all is called exactly once for each (query, provider list).
C20_CacheProtocol ==
    /\ [](\A k \in DOMAIN search_calls : search_calls[k].n = 1)
    /\ [][pc = "search" =>
            IF LookedUp \in DOMAIN search_calls
            THEN /\ pc' # "searching"
                 /\ all_results' = all_results \o search_calls[LookedUp].ret
                 /\ search_calls' = search_calls
            ELSE pc' = "searching"]_vars
    /\ [][pc = "searching" =>
            /\ LookedUp \in DOMAIN search_calls'
            /\ all_results' = all_results \o search_calls'[LookedUp].ret
            /\ cache_key(queries[qi], options) \in DOMAIN results_cache']_vars

\* a second scan on the instance returned candidates although it made no
\* search: every lookup was a hit
C20_Witness ==
    /\ scan_count = 2
    /\ ScanReturned
    /\ ~net_activity
    /\ all_results # <<>>

\* the cache key a concurrent scan is looking up or searching for
KeyOf(s) == cache_key(scans[s].queries[scans[s].qi], scans[s].options)

\* C21: two scans running concurrently on one instance never both find the
\* same key missing and both call search_all for it.
C21_CacheMutualExclusion ==
    \A s, t \in DOMAIN scans :
        (/\ s # t
         /\ scans[s].pc = "searching"
         /\ scans[t].pc = "searching") => KeyOf(s) # KeyOf(t)

C23_TruncatedToMaxDetailed ==
    ScanReturned =>
        LET unique == deduplicate_results(all_results)
            n == options.max_detailed_results
            first == {unique[i].url : i \in {j \in 1..Len(unique) : j <= n}}
        IN  /\ report.total_results_found = Len(unique)
            /\ Len(report.detailed_results) <= n
            /\ Len(report.detailed_results) <= report.total_results_found
            /\ Len(analysis) = Cardinality(first)
            /\ \A i \in 1..Len(report.detailed_results) :
                   report.detailed_results[i].url \in first

\* two unique candidates were found and one was analysed
C23_Witness ==
    /\ ScanReturned
    /\ options.max_detailed_results = 1
    /\ report.total_results_found = 2
    /\ Len(report.detailed_results) = 1
    /\ report.detailed_results[1].url = unique_results[1].url

\* C24: when the processing of a retained candidate raises (in the fetch,
\* the full matcher or the snippet analysis), exactly that candidate is
\* absent from detailed_results, every other retained candidate has its
\* result, and the scan returns its report.
C24_FailingCandidateDropped ==
    /\ pc = "done" => report.returned
    /\ ScanReturned =>
           LET ok == {i \in 1..Len(RetainedNow) : analysis[i].exc = "none"}
           IN  /\ Len(analysis) = Len(RetainedNow)
               /\ Len(report.detailed_results) = Cardinality(ok)
               /\ {report.detailed_results[i].url :
                       i \in 1..Len(report.detailed_results)}
                      = {RetainedNow[i].url : i \in ok}

\* the first of two retained candidates raised, the second has its result
C24_Witness ==
    /\ ScanReturned
    /\ Len(RetainedNow) = 2
    /\ analysis[1].exc # "none"
    /\ analysis[2].exc = "none"
    /\ Len(report.detailed_results) = 1
    /\ report.detailed_results[1].url = RetainedNow[2].url

\* the requests among the first n entries of the history of the fetch call
RequestsIn(n) ==
    LET IsRequest(ev) == ev.ev = "request"
    IN  SelectSeq(SubSeq(fetch_call.log, 1, n), IsRequest)

\* the rate-limited responses that end the sequence of requests reqs
TrailingRateLimited(reqs) ==
    Cardinality({m \in 1..Len(reqs) : \A x \in m..Len(reqs) : reqs[x].kind = "429"})

\* the call makes at most config.MAX_RETRIES requests, the n-th after n - 1
\* failed ones, and returns None without a further request once the cap is
\* reached
FetchCapped ==
    LET reqs == RequestsIn(Len(fetch_call.log))
    IN  /\ Len(reqs) <= fetch_call.cap
        /\ \A j \in 1..Len(reqs) : reqs[j].n = j - 1
        /\ (/\ pc # "base_idle"
            /\ Len(reqs) = fetch_call.cap
            /\ \/ reqs = <<>>
               \/ reqs[Len(reqs)].kind \in {"429", "timeout", "exception"})
              => pc = "base_returned" /\ fetch_call.ret = None

\* C25, as the code has it: for every sequence of responses, fetch makes at
\* most MAX_RETRIES requests and then returns None without a further
\* request; after a rate-limited response to its request number r (counted
\* from 0, whatever made the earlier requests fail) it waits 5 * 2^r seconds.
C25_BackoffPerAttempt ==
    /\ FetchCapped
    /\ \A i \in 1..Len(fetch_call.log) :
           /\ fetch_call.log[i].ev = "sleep" =>
                 /\ i > 1
                 /\ fetch_call.log[i - 1] = Event("request", Len(RequestsIn(i)) - 1, "429")
                 /\ fetch_call.log[i].n = 5 * 2 ^ (Len(RequestsIn(i)) - 1)
           /\ fetch_call.log[i].kind = "429" =>
                 /\ i < Len(fetch_call.log)
                 /\ fetch_call.log[i + 1].ev = "sleep"

\* three rate-limited responses: waits of 5, 10 and 20 seconds, then None
C25_Witness ==
    /\ pc = "base_returned"
    /\ fetch_call.ret = None
    /\ fetch_call.cap = MAX_RETRIES
    /\ Len(RequestsIn(Len(fetch_call.log))) = MAX_RETRIES
    /\ \E i \in 1..Len(fetch_call.log) : fetch_call.log[i] = Event("sleep", 20, "sleep")

\* C25, as stated: the same bound on the requests, and after the k-th
\* consecutive rate-limited response (k counted from 0) the wait is 5 * 2^k
\* seconds.
C25_BackoffPerConsecutive429 ==
    /\ FetchCapped
    /\ \A i \in 1..Len(fetch_call.log) :
           fetch_call.log[i].ev = "sleep" =>
               fetch_call.log[i].n = 5 * 2 ^ (TrailingRateLimited(RequestsIn(i)) - 1)

\* the fetches of the search call, in the order they were made
PageRequests ==
    LET IsFetch(ev) == ev.ev = "fetch"
    IN  SelectSeq(search_run.log, IsFetch)

\* the page lists of the first n fetched pages, one after the other
RECURSIVE InPageOrder(_)
InPageOrder(n) ==
    IF n = 0 THEN <<>> ELSE InPageOrder(n - 1) \o search_run.fetched[n]

\* C26: a paging provider requests its pages in increasing page order, with
\* the fixed delay before every page but the first; when the fetch of a page
\* fails (it returns nothing to parse), the search ends, and the list it
\* returns is the concatenation, in page order, of the parsed results of the
\* pages fetched before the first failed one.
C26_PagesInOrder ==
    /\ \A j \in 1..Len(PageRequests) : PageRequests[j].n = j - 1
    /\ \A i \in 1..Len(search_run.log) :
           LET ev == search_run.log[i]
           IN  /\ (ev.ev = "fetch" /\ ev.n > 0) =>
                      search_run.log[i - 1] = Event("sleep", DEFAULT_DELAY, "sleep")
               /\ (ev.ev = "fetch" /\ ev.n = 0) => i = 1
               /\ ev.ev = "sleep" =>
                      /\ i < Len(search_run.log)
                      /\ search_run.log[i + 1].ev = "fetch"
               /\ (ev.ev = "fetch" /\ ev.kind = "none") =>
                      /\ i = Len(search_run.log)
                      /\ pc = "paged_returned"
    /\ pc = "paged_returned" =>
           LET failed == {j \in 1..Len(PageRequests) : PageRequests[j].kind = "none"}
               upto == IF failed = {} THEN Len(PageRequests)
                       ELSE (CHOOSE j \in failed : \A k \in failed : j <= k) - 1
           IN  /\ search_run.ret = InPageOrder(upto)
               /\ failed = {} => Len(PageRequests) = search_run.pages

\* the second page failed and the two results of the first page are returned
C26_Witness ==
    /\ pc = "paged_returned"
    /\ search_run.pages = 2
    /\ Len(PageRequests) = 2
    /\ PageRequests[2].kind = "none"
    /\ search_run.ret = <<GoogleHit, BingHit>>

\* C27: when the address of the profile is not an exact substring of the
\* page, the full matcher produces an address record only if at least 2 of
\* the components of the address occur in the page, with confidence =
\* matched components / total components; with fewer than 2 it produces no
\* address record and returns the records of the other attributes without
\* raising.
C27_AddressNeedsTwoComponents ==
    (/\ pc = "matched"
     /\ matcher_args.fn = "extract_personal_info"
     /\ Present(matcher_args.info, "address")
     /\ ~matcher_args.page.address.exact) =>
        LET found == Cardinality(matcher_args.page.address.parts)
        IN  /\ extracted.exc = "none"
            /\ "address" \in DOMAIN extracted.matched_info <=> found >= 2
            /\ "address" \in DOMAIN extracted.matched_info =>
                   extracted.matched_info["address"] =
                       Match((ConfScale * found) \div Len(AddressParts), "partial")

\* base weight times confidence (times ConfScale) of an attribute, 0 when
\* the attribute is not matched
Weighted(matches, k, weight) ==
    IF k \in DOMAIN matches THEN weight * matches[k].conf ELSE 0

C30_SessionNotShared ==
    \A t \in 1..Len(provider.searches) :
        (\/ provider.searches[t].pc = "sleeping"
         \/ /\ provider.searches[t].pc = "fetching"
            /\ provider.searches[t].pages_left >= 2) =>
            /\ provider.session = provider.searches[t].entered
            /\ provider.session \notin provider.closed

\* C29: over a sequence of scans on one instance, a list served from
\* results_cache was computed by search_all with the query, the provider
\* list and the pages_per_engine of the scan that receives it.
C29_CachedUnderSamePages ==
    [][(pc = "search" /\ cache_key(queries[qi], options) \in DOMAIN results_cache) =>
          /\ LookedUp \in DOMAIN search_calls
          /\ all_results' = all_results \o search_calls[LookedUp].ret
          /\ search_calls[LookedUp].pages = options.pages_per_engine]_vars

====
